---- MODULE Spec2Model ----
(***************************************************************************)
(* Session protocol engine of the game client (src/src/main/game.ts):      *)
(* the GameClient sessions (WebSocket handshake, message dispatch,         *)
(* request/response correlation with timeout) and the coordinator built   *)
(* by createClients (shared idempotent close, 'contact' routing, window    *)
(* close handling).  Every event-loop callback of the source is one        *)
(* action; an await splits a handler into the part before it and a         *)
(* continuation kept in the state.                                         *)
(***************************************************************************)
EXTENDS Integers, Sequences, FiniteSets, TLC

\* ------------------------------------------------------------------ sizes
MaxClients == 2         \* clientCount of createClients: 1 networked, 2 local seats
MaxReq == 2             \* local actions issued by the presentation layer
MaxMsg == 2             \* inbound frames the peer delivers to a single session
PairMsg == 1            \* inbound frames the peer delivers to a pair of sessions
SessMsg == 3            \* pushes the peer delivers over the life of one session

Ids == 1..MaxReq        \* correlation ids (distinct random tokens)
NoId == 0               \* envelope without an id field
UnknownSender == 0      \* a webContents id that belongs to no game window

\* close codes seen by the ws 'close' handler
AbortCode == 4000       \* handshake abandoned by the client
PeerForcedCode == 4004  \* peer-forced termination
AbnormalCode == 1006    \* abnormal closure (no close frame)
NoStatusCode == 1005    \* ws.close() without a code
NotClosing == 0         \* no ws.close(...) call has taken effect yet
CloseCodes == {AbnormalCode, AbortCode, PeerForcedCode}

\* ------------------------------------------------------------------ wire
PushTags == {"connect-success", "connect-fail", "game-start", "change-turn", "game-end"}
MsgTypes == PushTags \cup {"success"}

\* payload of a handshake-success push: assigned camp and map metadata
SuccessData == {"camp1/mapPlain", "camp2/mapExt"}
CampOf(d) == IF d = "camp1/mapPlain" THEN 1 ELSE 2
MapOf(d) == IF d = "camp1/mapPlain" THEN "mapPlain" ELSE "mapExt"
NoMap == "none"

\* extensions a map requires (key@version), and what the local resolver may return
RequiredExtensions(m) == IF m = "mapExt" THEN {"ext@1"} ELSE {}
AvailableLists == {{}, {"ext@1"}, {"ext@2"}}

FailData == {"too-many-clients", "denied", ""}
ReplyData == {"plain", "chessboard"}

DataOf(t) ==
  CASE t = "connect-success" -> SuccessData
    [] t = "connect-fail" -> FailData
    [] t = "game-end" -> {"result"}
    [] t = "success" -> ReplyData
    [] OTHER -> {""}

Envelopes == UNION {[type : {t}, data : DataOf(t), id : Ids \cup {NoId}] : t \in MsgTypes}

ContactTypes == {"get-info", "get-state", "get-available-moves", "get-is-checked", "move", "other"}
ServerTypes == {"get-state", "move"}

\* ------------------------------------------------------------------ board
Rows == 2               \* rows of the boards the check detector is run on
Cols == 2               \* columns of those boards
Positions == (1..Rows) \X (1..Cols)

\* a square holds a piece {camp, isChief} or nothing; `chess?.camp` of an
\* empty square is undefined, which equals no camp
Undefined == -1
Null == [camp |-> Undefined, isChief |-> FALSE]
Camps == {1, 2}
Pieces == [camp : Camps, isChief : BOOLEAN]
Boards == [1..Rows -> [1..Cols -> Pieces \cup {Null}]]

\* what getAvailableMoves may return for a square: nothing or one destination
MoveLists == {{}} \cup {{q} : q \in Positions}
MaxMovers == 2          \* squares for which getAvailableMoves returns a destination
MoveMaps == {mv \in [Positions -> MoveLists] :
               Cardinality({p \in Positions : mv[p] # {}}) <= MaxMovers}

\* no get-is-checked has been answered yet
NotAsked == <<<<0, 0>>>>

\* ------------------------------------------------------------------ state
VARIABLES
  clientCount,        \* createClients parameter
  isLocal,            \* createClients parameter
  isClosed,           \* coordinator guard flag
  handlerRegistered,  \* ipcMain has a 'contact' handler
  removeHandlerCalls, \* ipcMain.removeHandler('contact') invocations
  stopGameCalls,      \* stopGame() invocations
  closeCalls,         \* invocations of the coordinator's close
  errorBoxes,         \* dialog.showErrorBox invocations
  windowDestroyed,    \* per session: window.destroy() has run
  ws,                 \* per session: state of the WebSocket
  wsCloseCode,        \* per session: code of the ws.close call that took effect
  closedWith,         \* per session: code the 'close' event carried
  isConnectSuccess,   \* per session
  camp,               \* per session
  isGameEnd,          \* per session
  mapData,            \* per session
  extensions,         \* per session: loaded extension list
  chessboard,         \* per session: board snapshot
  messageHandlers,    \* per session: correlation id -> request it resolves, 0 if absent
  hsTimer,            \* per session: handshake timer
  delayed,            \* per session: pending setTimeout(() => this.close(..), 500)
  prompt,             \* per session: confirmation prompt open
  conts,              \* per session: suspended handshake-success handlers
  preparedSent,       \* per session: 'prepared' frames written to the socket
  notified,           \* per session: webContents.send notifications, in order
  attempts,           \* local actions issued ('contact' invocations)
  contactRuns,        \* local actions that reached a session's contact()
  rejected,           \* local actions of an owned window that found no handler
  reqs,               \* requests made through contactToServer, in issue order
  result,             \* per request: what the caller's promise settled with
  resolveCalls,       \* per request: sources that invoked resolve, in order
  settleOrder,        \* requests in the order their promises settled
  reqTimer,           \* per request: timeout timer
  frames,             \* inbound frames the peer has yet to deliver
  invalidLogged,      \* console.error('Invalid Response:', ..) calls
  moves,              \* rules collaborator: position -> destinations of getAvailableMoves
  isChecked           \* per session: what contact('get-is-checked') last returned

coordVars == <<clientCount, isLocal, isClosed, handlerRegistered, removeHandlerCalls, stopGameCalls,
               closeCalls, errorBoxes, windowDestroyed>>
sockVars == <<ws, wsCloseCode>>
evtVars == <<closedWith, rejected>>
sessVars == <<isConnectSuccess, camp, isGameEnd, mapData, extensions, chessboard>>
asyncVars == <<hsTimer, delayed, prompt, conts>>
outVars == <<preparedSent, notified>>
reqVars == <<messageHandlers, attempts, contactRuns, reqs, result, resolveCalls, settleOrder,
            reqTimer>>
miscVars == <<invalidLogged, moves, isChecked>>
Clients == 1..clientCount

vars == <<coordVars, sockVars, evtVars, sessVars, asyncVars, outVars, reqVars, frames, miscVars>>

NoResult == [by |-> "none", status |-> "", data |-> "", id |-> NoId]
NoHandler == 0

InitRest(n, local, budget) ==
  /\ clientCount = n
  /\ isLocal = local
  /\ isClosed = FALSE
  /\ handlerRegistered = TRUE
  /\ removeHandlerCalls = 0
  /\ stopGameCalls = 0
  /\ closeCalls = 0
  /\ errorBoxes = 0
  /\ windowDestroyed = [c \in Clients |-> FALSE]
  /\ ws = [c \in Clients |-> "CONNECTING"]
  /\ wsCloseCode = [c \in Clients |-> NotClosing]
  /\ closedWith = [c \in Clients |-> NotClosing]
  /\ rejected = 0
  /\ isConnectSuccess = [c \in Clients |-> FALSE]
  /\ isGameEnd = [c \in Clients |-> FALSE]
  /\ mapData = [c \in Clients |-> NoMap]
  /\ extensions = [c \in Clients |-> {}]
  /\ messageHandlers = [c \in Clients |-> [i \in Ids |-> NoHandler]]
  /\ hsTimer = [c \in Clients |-> "pending"]
  /\ delayed = [c \in Clients |-> [connect |-> 0, full |-> 0]]
  /\ prompt = [c \in Clients |-> FALSE]
  /\ conts = [c \in Clients |-> {}]
  /\ preparedSent = [c \in Clients |-> 0]
  /\ notified = [c \in Clients |-> <<>>]
  /\ attempts = 0
  /\ contactRuns = 0
  /\ reqs = <<>>
  /\ result = [r \in 1..MaxReq |-> NoResult]
  /\ resolveCalls = [r \in 1..MaxReq |-> <<>>]
  /\ settleOrder = <<>>
  /\ reqTimer = [r \in 1..MaxReq |-> "none"]
  /\ frames = budget
  /\ invalidLogged = 0
  /\ isChecked = [c \in Clients |-> NotAsked]

\* a fresh GameClient: no camp yet; the protocol specifications track only
\* which board snapshot the session holds
InitWith(n, local, budget) ==
  /\ InitRest(n, local, budget)
  /\ camp = [c \in Clients |-> 0]
  /\ chessboard = [c \in Clients |-> "initial"]
  /\ moves = [p \in Positions |-> {}]

Init == \E n \in 1..MaxClients, local \in BOOLEAN : InitWith(n, local, MaxMsg)

\* ------------------------------------------------------------------ socket
\* ws.close(code) by readyState: a no-op once closing or closed, aborts a
\* connection attempt, starts the closing handshake of an open connection.
WsAfterClose(s) ==
  CASE s = "CONNECTING" -> "ABORTING"
    [] s = "OPEN" -> "CLOSING"
    [] OTHER -> s

WsCloseTakesEffect(s) == s \in {"CONNECTING", "OPEN"}

\* ws.send(..) throws while CONNECTING; once the socket is closing or closed
\* the library either throws or drops the frame, depending on its version.
SendMayThrow(s) == s # "OPEN"
SendMayReturn(s) == s # "CONNECTING"

\* ------------------------------------------------------------------ close
\* close without its guard flag
CoordCloseUnguarded ==
  /\ closeCalls' = closeCalls + 1
  /\ isClosed' = TRUE
  /\ windowDestroyed' = [c \in Clients |-> TRUE]
  /\ handlerRegistered' = FALSE
  /\ removeHandlerCalls' = removeHandlerCalls + 1
  /\ stopGameCalls' = stopGameCalls + 1

\* close that leaves the 'contact' handler registered
CoordCloseKeepsHandler ==
  /\ closeCalls' = closeCalls + 1
  /\ IF isClosed
       THEN UNCHANGED <<isClosed, windowDestroyed, handlerRegistered,
                        removeHandlerCalls, stopGameCalls>>
       ELSE /\ isClosed' = TRUE
            /\ windowDestroyed' = [c \in Clients |-> TRUE]
            /\ UNCHANGED <<handlerRegistered, removeHandlerCalls>>
            /\ stopGameCalls' = stopGameCalls + 1

\* createClients.close: the guard flag, then windows, handler, stopGame.
CoordClose ==
  /\ closeCalls' = closeCalls + 1
  /\ IF isClosed
       THEN UNCHANGED <<isClosed, windowDestroyed, handlerRegistered,
                        removeHandlerCalls, stopGameCalls>>
       ELSE /\ isClosed' = TRUE
            /\ windowDestroyed' = [c \in Clients |-> TRUE]
            /\ handlerRegistered' = FALSE
            /\ removeHandlerCalls' = removeHandlerCalls + 1
            /\ stopGameCalls' = stopGameCalls + 1

\* GameClient.close(content), called when the socket is in state wsNow and
\* isConnectSuccess has the value connected.
ClientClose(c, wsNow, connected, hasContent) ==
  /\ ws' = IF connected THEN [wsNow EXCEPT ![c] = WsAfterClose(wsNow[c])] ELSE wsNow
  /\ wsCloseCode' = IF connected /\ WsCloseTakesEffect(wsNow[c])
                      THEN [wsCloseCode EXCEPT ![c] = NoStatusCode]
                      ELSE wsCloseCode
  /\ errorBoxes' = errorBoxes + (IF hasContent THEN 1 ELSE 0)
  /\ CoordClose

NoClose == UNCHANGED <<isClosed, handlerRegistered, removeHandlerCalls, stopGameCalls,
                       closeCalls, errorBoxes, windowDestroyed>>

\* ------------------------------------------------------------------ socket events
\* the connection is established (no 'open' listener: only the state changes)
WsOpen(c) ==
  /\ ws[c] = "CONNECTING"
  /\ ws' = [ws EXCEPT ![c] = "OPEN"]
  /\ UNCHANGED <<miscVars, coordVars, wsCloseCode, sessVars, asyncVars, outVars, reqVars, frames, evtVars>>

\* ws 'error': the close is deferred by 500 ms; the 'close' event follows
WsError(c) ==
  /\ ws[c] \in {"CONNECTING", "OPEN", "CLOSING", "ABORTING"}
  /\ ws' = [ws EXCEPT ![c] = "ERRORED"]
  /\ delayed' = [delayed EXCEPT ![c].connect = @ + 1]
  /\ UNCHANGED <<miscVars, coordVars, wsCloseCode, sessVars, hsTimer, prompt, conts, outVars,
                 reqVars, frames, evtVars>>

\* the 'close' handler if it passed the disconnect text in local mode too
WsCloseEventAlwaysText(c, code) ==
  /\ ws[c] \in {"OPEN", "CLOSING", "ERRORED"}
  /\ ws[c] = "ERRORED" => code = AbnormalCode
  /\ isConnectSuccess' = [isConnectSuccess EXCEPT ![c] = FALSE]
  /\ closedWith' = [closedWith EXCEPT ![c] = code]
  /\ IF code = PeerForcedCode
       THEN ClientClose(c, [ws EXCEPT ![c] = "CLOSED"], FALSE, TRUE)
       ELSE /\ ws' = [ws EXCEPT ![c] = "CLOSED"]
            /\ UNCHANGED wsCloseCode
            /\ NoClose
  /\ UNCHANGED <<miscVars, clientCount, isLocal, camp, isGameEnd, mapData, extensions, chessboard,
                 asyncVars, outVars, reqVars, frames, rejected>>

\* the 'close' handler if it dropped the session's outstanding requests
WsCloseEventCancels(c, code) ==
  /\ ws[c] \in {"OPEN", "CLOSING", "ERRORED"}
  /\ ws[c] = "ERRORED" => code = AbnormalCode
  /\ isConnectSuccess' = [isConnectSuccess EXCEPT ![c] = FALSE]
  /\ closedWith' = [closedWith EXCEPT ![c] = code]
  /\ messageHandlers' = [messageHandlers EXCEPT ![c] = [i \in Ids |-> NoHandler]]
  /\ IF code = PeerForcedCode
       THEN ClientClose(c, [ws EXCEPT ![c] = "CLOSED"], FALSE, ~isLocal)
       ELSE /\ ws' = [ws EXCEPT ![c] = "CLOSED"]
            /\ UNCHANGED wsCloseCode
            /\ NoClose
  /\ UNCHANGED <<miscVars, clientCount, isLocal, camp, isGameEnd, mapData, extensions, chessboard,
                 asyncVars, outVars, attempts, contactRuns, reqs, result, resolveCalls,
                 settleOrder, reqTimer, frames, rejected>>

\* the 'close' handler if it also tore the session down on the abort code
WsCloseEventOnAbort(c, code) ==
  /\ ws[c] \in {"OPEN", "CLOSING", "ERRORED"}
  /\ ws[c] = "ERRORED" => code = AbnormalCode
  /\ isConnectSuccess' = [isConnectSuccess EXCEPT ![c] = FALSE]
  /\ closedWith' = [closedWith EXCEPT ![c] = code]
  /\ IF code \in {PeerForcedCode, AbortCode}
       THEN ClientClose(c, [ws EXCEPT ![c] = "CLOSED"], FALSE, ~isLocal)
       ELSE /\ ws' = [ws EXCEPT ![c] = "CLOSED"]
            /\ UNCHANGED wsCloseCode
            /\ NoClose
  /\ UNCHANGED <<miscVars, clientCount, isLocal, camp, isGameEnd, mapData, extensions, chessboard,
                 asyncVars, outVars, reqVars, frames, rejected>>

\* ws 'close' with the given code
WsCloseEvent(c, code) ==
  /\ ws[c] \in {"OPEN", "CLOSING", "ERRORED"}
  /\ ws[c] = "ERRORED" => code = AbnormalCode
  /\ isConnectSuccess' = [isConnectSuccess EXCEPT ![c] = FALSE]
  /\ closedWith' = [closedWith EXCEPT ![c] = code]
  /\ IF code = PeerForcedCode
       THEN ClientClose(c, [ws EXCEPT ![c] = "CLOSED"], FALSE, ~isLocal)
       ELSE /\ ws' = [ws EXCEPT ![c] = "CLOSED"]
            /\ UNCHANGED wsCloseCode
            /\ NoClose
  /\ UNCHANGED <<miscVars, clientCount, isLocal, camp, isGameEnd, mapData, extensions, chessboard,
                 asyncVars, outVars, reqVars, frames, rejected>>

\* the handshake timer if it closed without looking at isConnectSuccess
HandshakeTimeoutUnconditional(c) ==
  /\ hsTimer[c] = "pending"
  /\ hsTimer' = [hsTimer EXCEPT ![c] = "fired"]
  /\ ws' = [ws EXCEPT ![c] = WsAfterClose(ws[c])]
  /\ wsCloseCode' = IF WsCloseTakesEffect(ws[c])
                      THEN [wsCloseCode EXCEPT ![c] = AbortCode]
                      ELSE wsCloseCode
  /\ UNCHANGED <<miscVars, coordVars, sessVars, delayed, prompt, conts, outVars, reqVars, frames, evtVars>>

\* the handshake timer set by the constructor
HandshakeTimeout(c) ==
  /\ hsTimer[c] = "pending"
  /\ hsTimer' = [hsTimer EXCEPT ![c] = "fired"]
  /\ IF ~isConnectSuccess[c]
       THEN /\ ws' = [ws EXCEPT ![c] = WsAfterClose(ws[c])]
            /\ wsCloseCode' = IF WsCloseTakesEffect(ws[c])
                                THEN [wsCloseCode EXCEPT ![c] = AbortCode]
                                ELSE wsCloseCode
       ELSE UNCHANGED sockVars
  /\ UNCHANGED <<miscVars, coordVars, sessVars, delayed, prompt, conts, outVars, reqVars, frames, evtVars>>

\* a deferred this.close(content) runs
DelayedClose(c, tag) ==
  /\ delayed[c][tag] > 0
  /\ delayed' = [delayed EXCEPT ![c][tag] = @ - 1]
  /\ ClientClose(c, ws, isConnectSuccess[c], TRUE)
  /\ UNCHANGED <<miscVars, clientCount, isLocal, sessVars, hsTimer, prompt, conts, outVars, reqVars, frames, evtVars>>

\* ------------------------------------------------------------------ window close
\* window 'close': preventDefault, then close at once if the game has ended,
\* otherwise ask (checkOnClose)
UserCloseWindow(c) ==
  /\ ~windowDestroyed[c]
  /\ ~prompt[c]
  /\ IF isGameEnd[c]
       THEN /\ ClientClose(c, ws, isConnectSuccess[c], FALSE)
            /\ UNCHANGED prompt
       ELSE /\ prompt' = [prompt EXCEPT ![c] = TRUE]
            /\ UNCHANGED sockVars
            /\ NoClose
  /\ UNCHANGED <<miscVars, clientCount, isLocal, sessVars, hsTimer, delayed, conts, outVars, reqVars, frames, evtVars>>

\* the prompt's answer ignored: the session is closed whatever the user chose
AnswerPromptAlwaysCloses(c, confirmed) ==
  /\ prompt[c]
  /\ prompt' = [prompt EXCEPT ![c] = FALSE]
  /\ ClientClose(c, ws, isConnectSuccess[c], FALSE)
  /\ UNCHANGED <<miscVars, clientCount, isLocal, sessVars, hsTimer, delayed, conts, outVars, reqVars, frames, evtVars>>

\* the confirmation prompt returns
AnswerPrompt(c, confirmed) ==
  /\ prompt[c]
  /\ prompt' = [prompt EXCEPT ![c] = FALSE]
  /\ IF confirmed
       THEN ClientClose(c, ws, isConnectSuccess[c], FALSE)
       ELSE UNCHANGED sockVars /\ NoClose
  /\ UNCHANGED <<miscVars, clientCount, isLocal, sessVars, hsTimer, delayed, conts, outVars, reqVars, frames, evtVars>>

\* ------------------------------------------------------------------ correlator
\* resolve(response) of request r's promise: only the first call settles it;
\* contact('get-state') then stores a board carried by a successful reply
Settle(r, by, status, data, id) ==
  /\ resolveCalls' = [resolveCalls EXCEPT ![r] = Append(@, by)]
  /\ result' = IF result[r].by = "none"
                 THEN [result EXCEPT ![r] = [by |-> by, status |-> status, data |-> data,
                                             id |-> id]]
                 ELSE result
  /\ settleOrder' = IF result[r].by = "none" THEN Append(settleOrder, r) ELSE settleOrder
  /\ chessboard' = IF /\ result[r].by = "none"
                      /\ status = "success"
                      /\ data = "chessboard"
                      /\ reqs[r].type = "get-state"
                     THEN [chessboard EXCEPT ![reqs[r].c] = "synced"]
                     ELSE chessboard

UsedIds == {reqs[q].id : q \in 1..Len(reqs)}

\* contactToServer on session c; throws is the outcome of ws.send
ContactToServer(c, type, serializable, id, throws) ==
  LET r == Len(reqs) + 1 IN
  /\ id \in Ids \ UsedIds
  /\ throws => SendMayThrow(ws[c])
  /\ ~throws => SendMayReturn(ws[c])
  /\ reqs' = Append(reqs, [c |-> c, type |-> type, id |-> id,
                           sent |-> serializable /\ ~throws /\ ws[c] = "OPEN"])
  /\ reqTimer' = [reqTimer EXCEPT ![r] = "pending"]
  /\ IF ~serializable
       THEN /\ Settle(r, "senderror", "error", "Failed to send message.", NoId)
            /\ UNCHANGED messageHandlers
       ELSE /\ messageHandlers' = [messageHandlers EXCEPT ![c][id] = r]
            /\ IF throws
                 THEN Settle(r, "senderror", "error", "Failed to send message.", NoId)
                 ELSE UNCHANGED <<result, resolveCalls, settleOrder, chessboard>>

\* the 'contact' handler of ipcMain, invoked for a local action of sender
RouteContact(sender, type, serializable, id, throws) ==
  /\ attempts < MaxReq
  /\ attempts' = attempts + 1
  /\ IF handlerRegistered /\ sender \in Clients
       THEN /\ contactRuns' = contactRuns + 1
            /\ UNCHANGED rejected
            /\ IF type \in ServerTypes
                 THEN ContactToServer(sender, type, serializable, id, throws)
                 ELSE /\ serializable /\ ~throws /\ id = NoId
                      /\ UNCHANGED <<messageHandlers, reqs, result, resolveCalls,
                                     settleOrder, reqTimer, chessboard>>
       ELSE /\ serializable /\ ~throws /\ id = NoId
            /\ rejected' = IF sender \in Clients THEN rejected + 1 ELSE rejected
            /\ UNCHANGED <<contactRuns, messageHandlers, reqs, result, resolveCalls,
                           settleOrder, reqTimer, chessboard>>
  /\ UNCHANGED <<miscVars, coordVars, sockVars, isConnectSuccess, camp, isGameEnd,
                 mapData, extensions, asyncVars, outVars, frames, closedWith>>

\* the timeout callback if it resolved without looking for its handler
RequestTimeoutUnguarded(r) ==
  /\ reqTimer[r] = "pending"
  /\ reqTimer' = [reqTimer EXCEPT ![r] = "fired"]
  /\ messageHandlers' = [messageHandlers EXCEPT ![reqs[r].c][reqs[r].id] = NoHandler]
  /\ Settle(r, "timeout", "error", "Timeout waiting for response.", NoId)
  /\ UNCHANGED <<miscVars, coordVars, sockVars, isConnectSuccess, camp, isGameEnd,
                 mapData, extensions, asyncVars, outVars, attempts, contactRuns, reqs,
                 frames, evtVars>>

\* the request's timeout callback
RequestTimeout(r) ==
  /\ reqTimer[r] = "pending"
  /\ reqTimer' = [reqTimer EXCEPT ![r] = "fired"]
  /\ IF messageHandlers[reqs[r].c][reqs[r].id] # NoHandler
       THEN /\ messageHandlers' = [messageHandlers EXCEPT ![reqs[r].c][reqs[r].id] = NoHandler]
            /\ Settle(r, "timeout", "error", "Timeout waiting for response.", NoId)
       ELSE UNCHANGED <<messageHandlers, result, resolveCalls, settleOrder, chessboard>>
  /\ UNCHANGED <<miscVars, coordVars, sockVars, isConnectSuccess, camp, isGameEnd,
                 mapData, extensions, asyncVars, outVars, attempts, contactRuns, reqs,
                 frames, evtVars>>

\* ------------------------------------------------------------------ check detector
\* the squares of a board in the order of the two nested loops
ScanOrder(board) ==
  LET cols == Len(board[1]) IN
  [k \in 1..(Len(board) * cols) |-> <<((k - 1) \div cols) + 1, ((k - 1) % cols) + 1>>]

\* the scan as the specification words it: an own royal piece is a candidate,
\* every other square feeds the reach set
RECURSIVE ScanFlat(_, _, _, _, _)
ScanFlat(board, mine, mv, k, acc) ==
  IF k > Len(ScanOrder(board)) THEN acc
  ELSE LET p == ScanOrder(board)[k]
           chess == board[p[1]][p[2]]
       IN ScanFlat(board, mine, mv, k + 1,
            IF chess.camp = mine /\ chess.isChief
              THEN [acc EXCEPT !.myChiefPos = Append(@, p)]
              ELSE [acc EXCEPT !.opponentMoves = @ \cup mv[p]])

getIsCheckedFlat(board, mine, mv) ==
  LET acc == ScanFlat(board, mine, mv, 1, [myChiefPos |-> <<>>, opponentMoves |-> {}])
  IN SelectSeq(acc.myChiefPos, LAMBDA p : p \in acc.opponentMoves)

\* the two loops of getIsChecked from square k on: a square of the own camp
\* is recorded if it is a chief, any other square adds its moves
RECURSIVE Scan(_, _, _, _, _)
Scan(board, mine, mv, k, acc) ==
  IF k > Len(ScanOrder(board)) THEN acc
  ELSE LET p == ScanOrder(board)[k]
           chess == board[p[1]][p[2]]
       IN Scan(board, mine, mv, k + 1,
            IF chess.camp = mine
              THEN IF chess.isChief THEN [acc EXCEPT !.myChiefPos = Append(@, p)] ELSE acc
              ELSE [acc EXCEPT !.opponentMoves = @ \cup mv[p]])

\* GameClient.getIsChecked with getAvailableMoves given by mv
getIsChecked(board, mine, mv) ==
  LET acc == Scan(board, mine, mv, 1, [myChiefPos |-> <<>>, opponentMoves |-> {}])
  IN SelectSeq(acc.myChiefPos, LAMBDA p : p \in acc.opponentMoves)

\* contact('get-is-checked') on session c; the value it returns is kept
ContactIsChecked(c) ==
  /\ handlerRegistered
  /\ isChecked' = [isChecked EXCEPT ![c] = getIsChecked(chessboard[c], camp[c], moves)]
  /\ UNCHANGED <<coordVars, sockVars, evtVars, sessVars, asyncVars, outVars, reqVars, frames,
                 invalidLogged, moves>>

\* ------------------------------------------------------------------ dispatcher
Registered(c, m) == m.id # NoId /\ messageHandlers[c][m.id] # NoHandler

\* the dispatcher if it invoked the oldest registered handler instead of the
\* one stored under the frame's id
HandleResponseOldest(c, m) ==
  LET registered == {i \in Ids : messageHandlers[c][i] # NoHandler}
      r == CHOOSE q \in {messageHandlers[c][i] : i \in registered} :
             \A i \in registered : q <= messageHandlers[c][i]
  IN
  /\ messageHandlers' = [messageHandlers EXCEPT ![c][reqs[r].id] = NoHandler]
  /\ Settle(r, "response", m.type, m.data, m.id)

\* the handler stored by contactToServer: delete its id, resolve its promise
HandleResponse(c, m) ==
  LET r == messageHandlers[c][m.id] IN
  /\ messageHandlers' = [messageHandlers EXCEPT ![c][reqs[r].id] = NoHandler]
  /\ Settle(r, "response", m.type, m.data, m.id)

NoResponse == UNCHANGED <<messageHandlers, result, resolveCalls, settleOrder, chessboard>>

\* what the push handlers may change
NoPush ==
  /\ UNCHANGED <<sockVars, isConnectSuccess, mapData, conts, isGameEnd, delayed, notified>>
  /\ NoClose

\* window.webContents.send(tag, data): throws on a destroyed window
NoPayload == ""
Forward(c, tag, data) ==
  notified' = IF windowDestroyed[c] THEN notified
              ELSE [notified EXCEPT ![c] = Append(@, [tag |-> tag, data |-> data])]

\* the switch if its game-end case also closed the session
HandlePushEndCloses(c, m) ==
  CASE m.type = "connect-success" ->
         /\ isConnectSuccess' = [isConnectSuccess EXCEPT ![c] = TRUE]
         /\ mapData' = [mapData EXCEPT ![c] = MapOf(m.data)]
         /\ conts' = [conts EXCEPT ![c] = @ \cup {[n |-> frames, data |-> m.data,
                                                    stage |-> "resolving"]}]
         /\ UNCHANGED <<sockVars, isGameEnd, delayed, notified>>
         /\ NoClose
    [] m.type = "connect-fail" ->
         /\ IF m.data = "too-many-clients"
              THEN /\ delayed' = [delayed EXCEPT ![c].full = @ + 1]
                   /\ UNCHANGED sockVars
                   /\ NoClose
              ELSE /\ ClientClose(c, ws, isConnectSuccess[c], m.data # "")
                   /\ UNCHANGED delayed
         /\ UNCHANGED <<isConnectSuccess, mapData, conts, isGameEnd, notified>>
    [] m.type \in {"game-start", "change-turn"} ->
         /\ Forward(c, m.type, NoPayload)
         /\ UNCHANGED <<sockVars, isConnectSuccess, mapData, conts, isGameEnd, delayed>>
         /\ NoClose
    [] m.type = "game-end" ->
         /\ isGameEnd' = [isGameEnd EXCEPT ![c] = TRUE]
         /\ Forward(c, m.type, m.data)
         /\ ClientClose(c, ws, isConnectSuccess[c], FALSE)
         /\ UNCHANGED <<isConnectSuccess, mapData, conts, delayed>>
    [] OTHER -> NoPush

\* the switch on data.type
HandlePush(c, m) ==
  CASE m.type = "connect-success" ->
         /\ isConnectSuccess' = [isConnectSuccess EXCEPT ![c] = TRUE]
         /\ mapData' = [mapData EXCEPT ![c] = MapOf(m.data)]
         /\ conts' = [conts EXCEPT ![c] = @ \cup {[n |-> frames, data |-> m.data,
                                                    stage |-> "resolving"]}]
         /\ UNCHANGED <<sockVars, isGameEnd, delayed, notified>>
         /\ NoClose
    [] m.type = "connect-fail" ->
         /\ IF m.data = "too-many-clients"
              THEN /\ delayed' = [delayed EXCEPT ![c].full = @ + 1]
                   /\ UNCHANGED sockVars
                   /\ NoClose
              ELSE /\ ClientClose(c, ws, isConnectSuccess[c], m.data # "")
                   /\ UNCHANGED delayed
         /\ UNCHANGED <<isConnectSuccess, mapData, conts, isGameEnd, notified>>
    [] m.type \in {"game-start", "change-turn"} ->
         /\ Forward(c, m.type, NoPayload)
         /\ UNCHANGED <<sockVars, isConnectSuccess, mapData, conts, isGameEnd, delayed>>
         /\ NoClose
    [] m.type = "game-end" ->
         /\ isGameEnd' = [isGameEnd EXCEPT ![c] = TRUE]
         /\ Forward(c, m.type, m.data)
         /\ UNCHANGED <<sockVars, isConnectSuccess, mapData, conts, delayed>>
         /\ NoClose
    [] OTHER -> NoPush

\* a parse failure that also forgot the session's registered handlers
OnMessageInvalidResets(c) ==
  /\ ws[c] \in {"OPEN", "CLOSING"}
  /\ frames > 0
  /\ frames' = frames - 1
  /\ invalidLogged' = invalidLogged + 1
  /\ messageHandlers' = [messageHandlers EXCEPT ![c] = [i \in Ids |-> NoHandler]]
  /\ UNCHANGED <<coordVars, sockVars, evtVars, sessVars, asyncVars, outVars, attempts,
                 contactRuns, reqs, result, resolveCalls, settleOrder, reqTimer, moves, isChecked>>

\* GameClient.onMessage for a frame that JSON.parse rejects: logged, dropped
OnMessageInvalid(c) ==
  /\ ws[c] \in {"OPEN", "CLOSING"}
  /\ frames > 0
  /\ frames' = frames - 1
  /\ invalidLogged' = invalidLogged + 1
  /\ UNCHANGED <<coordVars, sockVars, evtVars, sessVars, asyncVars, outVars, reqVars,
                 moves, isChecked>>

\* GameClient.onMessage for a frame that parses to envelope m: a registered
\* id goes to its handler, anything else to the switch
OnMessageFallsThrough(c, m) ==
  /\ ws[c] \in {"OPEN", "CLOSING"}
  /\ frames > 0
  /\ frames' = frames - 1
  /\ IF Registered(c, m)
       THEN HandleResponse(c, m) /\ HandlePush(c, m)
       ELSE NoResponse /\ HandlePush(c, m)
  /\ UNCHANGED <<miscVars, clientCount, isLocal, camp, extensions, hsTimer, prompt, preparedSent,
                 attempts, contactRuns, reqs, reqTimer, evtVars>>

OnMessage(c, m) ==
  /\ ws[c] \in {"OPEN", "CLOSING"}
  /\ frames > 0
  /\ frames' = frames - 1
  /\ IF Registered(c, m)
       THEN HandleResponse(c, m) /\ NoPush
       ELSE NoResponse /\ HandlePush(c, m)
  /\ UNCHANGED <<miscVars, clientCount, isLocal, camp, extensions, hsTimer, prompt, preparedSent,
                 attempts, contactRuns, reqs, reqTimer, evtVars>>

\* ------------------------------------------------------------------ negotiation
\* passes iff every required key@version is among the loaded extensions
checkExtensions(exts, required) == required \subseteq exts

\* the continuation if it went on without comparing the extensions
ResolveExtensionsUnchecked(c, k, avail, throws) ==
  /\ k \in conts[c]
  /\ k.stage = "resolving"
  /\ extensions' = [extensions EXCEPT ![c] = avail]
  /\ throws => SendMayThrow(ws[c])
  /\ ~throws => SendMayReturn(ws[c])
  /\ camp' = [camp EXCEPT ![c] = CampOf(k.data)]
  /\ conts' = [conts EXCEPT ![c] = @ \ {k}]
  /\ preparedSent' = IF ws[c] = "OPEN" THEN [preparedSent EXCEPT ![c] = @ + 1]
                     ELSE preparedSent
  /\ IF throws THEN UNCHANGED notified ELSE Forward(c, "connect-success", NoPayload)
  /\ UNCHANGED <<miscVars, coordVars, sockVars, isConnectSuccess, isGameEnd, mapData,
                 chessboard, hsTimer, delayed, prompt, reqVars, frames, evtVars>>

\* onMessage resumes after `await autoGetNeededExtensions(..)` returned avail;
\* throws: the first call that can fail on this path does
ResolveExtensions(c, k, avail, throws) ==
  /\ k \in conts[c]
  /\ k.stage = "resolving"
  /\ extensions' = [extensions EXCEPT ![c] = avail]
  /\ IF ~(isLocal \/ checkExtensions(avail, RequiredExtensions(mapData[c])))
       THEN /\ throws => windowDestroyed[c]
            /\ conts' = [conts EXCEPT ![c] = IF throws THEN @ \ {k}
                            ELSE (@ \ {k}) \cup {[k EXCEPT !.stage = "dialog"]}]
            /\ UNCHANGED <<camp, outVars>>
       ELSE /\ throws => SendMayThrow(ws[c])
            /\ ~throws => SendMayReturn(ws[c])
            /\ camp' = [camp EXCEPT ![c] = CampOf(k.data)]
            /\ conts' = [conts EXCEPT ![c] = @ \ {k}]
            /\ preparedSent' = IF ws[c] = "OPEN" THEN [preparedSent EXCEPT ![c] = @ + 1]
                               ELSE preparedSent
            /\ IF throws THEN UNCHANGED notified ELSE Forward(c, "connect-success", NoPayload)
  /\ UNCHANGED <<miscVars, coordVars, sockVars, isConnectSuccess, isGameEnd, mapData,
                 chessboard, hsTimer, delayed, prompt, reqVars, frames, evtVars>>

\* the mismatch dialog returns: `return this.close()`
DismissMismatch(c, k) ==
  /\ k \in conts[c]
  /\ k.stage = "dialog"
  /\ conts' = [conts EXCEPT ![c] = @ \ {k}]
  /\ ClientClose(c, ws, isConnectSuccess[c], FALSE)
  /\ UNCHANGED <<miscVars, clientCount, isLocal, sessVars, hsTimer, delayed, prompt, outVars, reqVars, frames, evtVars>>

ContStates == [n : 1..(MaxMsg + SessMsg), data : SuccessData, stage : {"resolving", "dialog"}]

\* ------------------------------------------------------------------ environment
Pushes == {m \in Envelopes : m.id = NoId}
Replies == {m \in Envelopes : m.id # NoId}

SocketSteps ==
  \/ \E c \in Clients : WsOpen(c)
  \/ \E c \in Clients : WsError(c)
  \/ \E c \in Clients, code \in CloseCodes : WsCloseEvent(c, code)
  \/ \E c \in Clients : HandshakeTimeout(c)
  \/ \E c \in Clients, tag \in {"connect", "full"} : DelayedClose(c, tag)

WindowSteps ==
  \/ \E c \in Clients : UserCloseWindow(c)
  \/ \E c \in Clients, confirmed \in BOOLEAN : AnswerPrompt(c, confirmed)

RequestSteps ==
  \/ \E sender \in Clients \cup {UnknownSender}, type \in ContactTypes,
        serializable \in BOOLEAN, id \in Ids \cup {NoId}, throws \in BOOLEAN :
          RouteContact(sender, type, serializable, id, throws)
  \/ \E r \in 1..MaxReq : RequestTimeout(r)

NegotiationSteps ==
  \/ \E c \in Clients : \E k \in conts[c], avail \in AvailableLists, throws \in BOOLEAN :
          ResolveExtensions(c, k, avail, throws)
  \/ \E c \in Clients : \E k \in conts[c] : DismissMismatch(c, k)

Next ==
  \/ SocketSteps
  \/ WindowSteps
  \/ RequestSteps
  \/ NegotiationSteps
  \/ \E c \in Clients, m \in Envelopes : OnMessage(c, m)
  \/ \E c \in Clients : OnMessageInvalid(c)
  \/ \E c \in Clients : ContactIsChecked(c)

Spec == Init /\ [][Next]_vars

\* replies the peer gives to requests: any type tag, one payload per tag
\* (two for a plain success)
ReplyEnvelopes ==
  {m \in Replies : m.data \in {"plain", "chessboard", "camp2/mapExt", "denied", "result", ""}
                   /\ (m.type = "connect-fail" => m.data = "denied")}

\* one networked session and its correlator
NextCorr ==
  \/ \E c \in Clients : WsOpen(c)
  \/ \E c \in Clients, code \in CloseCodes : WsCloseEvent(c, code)
  \/ RequestSteps
  \/ NegotiationSteps
  \/ \E c \in Clients, m \in ReplyEnvelopes : OnMessage(c, m)

SpecCorr == InitWith(1, FALSE, MaxMsg) /\ [][NextCorr]_vars

\* the same session when the peer only answers with plain replies; every
\* request's timer, once set, eventually runs
SuccessReplies == {m \in Replies : m.type = "success"}

NextLive ==
  \/ \E c \in Clients : WsOpen(c)
  \/ \E c \in Clients, code \in CloseCodes : WsCloseEvent(c, code)
  \/ RequestSteps
  \/ \E c \in Clients, m \in SuccessReplies : OnMessage(c, m)
  \/ \E c \in Clients : OnMessageInvalid(c)

LiveCorr ==
  /\ InitWith(1, FALSE, MaxMsg)
  /\ [][NextLive]_vars
  /\ \A r \in 1..MaxReq : WF_vars(RequestTimeout(r))

\* local two-seat play and networked play with two windows: every trigger of
\* close, and the pushes that lead to one
ClosePushes ==
  {m \in Pushes : m.type \in {"connect-success", "connect-fail", "game-end"}}

NextCoord ==
  \/ SocketSteps
  \/ WindowSteps
  \/ NegotiationSteps
  \/ \E c \in Clients, m \in ClosePushes : OnMessage(c, m)

SpecCoord == (\E local \in BOOLEAN : InitWith(MaxClients, local, PairMsg)) /\ [][NextCoord]_vars

\* the life of one session: every push of the wire contract, in any order
\* the peer may choose, with the socket, timer and window events around them
NextSess ==
  \/ SocketSteps
  \/ WindowSteps
  \/ NegotiationSteps
  \/ \E c \in Clients, m \in Pushes : OnMessage(c, m)

SpecSess == InitWith(1, FALSE, SessMsg) /\ [][NextSess]_vars

\* a session with a board and a camp, asked whether it is in check
InitDetector ==
  \E board \in Boards, mine \in Camps, mv \in MoveMaps :
    /\ InitRest(1, TRUE, 0)
    /\ camp = [c \in Clients |-> mine]
    /\ chessboard = [c \in Clients |-> board]
    /\ moves = mv

NextDetector == \E c \in Clients : ContactIsChecked(c)

SpecDetector == InitDetector /\ [][NextDetector]_vars

\* ------------------------------------------------------------------ claims
Issued(r) == r <= Len(reqs)
Settled(r) == result[r].by # "none"
SendFailed(r) == resolveCalls[r] # <<>> /\ resolveCalls[r][1] = "senderror"
HandlerOf(r) == messageHandlers[reqs[r].c][reqs[r].id]

\* C1: the result of every request made through contactToServer is delivered
\* to its caller exactly once: a settled result never changes, it comes from
\* the first resolve call, a transmitted request has resolve called by at most
\* one of {response, timeout}, and every issued request is eventually settled.
C1_ExactlyOnce ==
  /\ [][\A r \in 1..MaxReq : Settled(r) => result'[r] = result[r]]_vars
  /\ [](\A r \in 1..MaxReq :
          /\ Settled(r) <=> resolveCalls[r] # <<>>
          /\ Settled(r) => result[r].by = resolveCalls[r][1]
          /\ ~SendFailed(r) => Len(resolveCalls[r]) <= 1
          /\ Settled(r) => Issued(r))
  /\ \A r \in 1..MaxReq : Issued(r) ~> Settled(r)

\* a response and a timeout raced for the same session's requests: one was
\* settled by its response, the other by its timer, a third by neither yet
C1_Witness ==
  /\ Len(reqs) = MaxReq
  /\ \E r \in 1..MaxReq : result[r].by = "response" /\ reqTimer[r] = "fired"
  /\ \E r \in 1..MaxReq : result[r].by = "timeout"

\* C2: a request is only ever resolved with the envelope that carries its own
\* correlation id, whatever the order in which responses arrive.
C2_NoCrossResolution ==
  \A r \in 1..MaxReq :
    result[r].by = "response" => Issued(r) /\ result[r].id = reqs[r].id

\* A then B issued on one session, B answered before A, each with its own payload
C2_Witness ==
  /\ Len(reqs) >= 2
  /\ reqs[1].c = reqs[2].c
  /\ result[1].by = "response" /\ result[2].by = "response"
  /\ settleOrder = <<2, 1>>
  /\ result[1].data # result[2].data

\* C3: after a failed transmission no handler is registered for the request.
C3_NoEntryAfterSendFailure ==
  \A r \in 1..MaxReq : Issued(r) /\ SendFailed(r) => HandlerOf(r) = NoHandler

\* C10: a frame whose id has a registered handler only resolves that request:
\* no push handler runs, whatever its type tag.
C10_ResponseOnly ==
  [][\A c \in Clients, m \in Envelopes :
       Registered(c, m) /\ OnMessage(c, m) =>
         LET r == messageHandlers[c][m.id] IN
         /\ resolveCalls'[r] = Append(resolveCalls[r], "response")
         /\ messageHandlers'[c][m.id] = NoHandler
         /\ ~Settled(r) => result'[r] = [by |-> "response", status |-> m.type,
                                         data |-> m.data, id |-> m.id]
         /\ camp'[c] = camp[c]
         /\ isGameEnd'[c] = isGameEnd[c]
         /\ isConnectSuccess'[c] = isConnectSuccess[c]
         /\ notified' = notified
         /\ conts' = conts /\ delayed' = delayed /\ closeCalls' = closeCalls
         /\ mapData' = mapData]_vars

\* a request was answered by a frame tagged game-end, and the game goes on
C10_Witness ==
  \E r \in 1..MaxReq :
    /\ result[r].by = "response"
    /\ result[r].status = "game-end"
    /\ ~isGameEnd[reqs[r].c]
    /\ notified[reqs[r].c] = <<>>

\* C4: over any sequence of close triggers stopGame runs exactly once and the
\* 'contact' handler is removed exactly once, by the first invocation of close.
C4_CloseOnce ==
  /\ isClosed <=> closeCalls > 0
  /\ stopGameCalls = IF closeCalls > 0 THEN 1 ELSE 0
  /\ removeHandlerCalls = IF closeCalls > 0 THEN 1 ELSE 0
  /\ handlerRegistered <=> closeCalls = 0

\* close was invoked from both sessions: a transport drop on one, the window on the other
C4_Witness ==
  /\ closeCalls >= 2
  /\ stopGameCalls = 1
  /\ \E c \in Clients : closedWith[c] = PeerForcedCode

\* C5: once the coordinator's close has run no session's connection is open.
C5_AllTransportsDown ==
  isClosed => \A c \in Clients : ws[c] \notin {"CONNECTING", "OPEN"}

\* C6: after the coordinator's close no local action reaches a session's
\* contact, and no request is made.
C6_NoRoutingAfterClose ==
  /\ [](isClosed => ~handlerRegistered)
  /\ [][isClosed => contactRuns' = contactRuns /\ reqs' = reqs]_vars

\* a local action of the owned window arrived after close and was refused
C6_Witness == isClosed /\ rejected > 0

\* C7: a 'close' event with code 4004 invokes the coordinator's close, and
\* shows the disconnect dialog exactly when the sessions are not local.
C7_PeerForcedClose ==
  [][\A c \in Clients :
       closedWith[c] = NotClosing /\ closedWith'[c] = PeerForcedCode =>
         /\ closeCalls' = closeCalls + 1
         /\ isClosed'
         /\ errorBoxes' = errorBoxes + (IF isLocal THEN 0 ELSE 1)]_vars

\* two local sessions, one dropped by the peer: closed, and no dialog was shown
C7_Witness ==
  /\ isLocal /\ clientCount = 2
  /\ \E c \in Clients : closedWith[c] = PeerForcedCode
  /\ isClosed
  /\ errorBoxes = 0

NewlyNotified(c, tag) ==
  Len(notified'[c]) > Len(notified[c]) /\ notified'[c][Len(notified'[c])].tag = tag

\* C8: 'prepared', the camp and the connect-success notification happen only
\* when the extensions match or the session is local; a mismatch in a
\* networked session does none of them and ends in close.
C8_ReadyOnlyIfNegotiated ==
  [][\A c \in Clients :
       LET passes == isLocal \/ checkExtensions(extensions'[c], RequiredExtensions(mapData[c]))
       IN
       /\ (camp'[c] # camp[c] \/ preparedSent'[c] # preparedSent[c]
             \/ NewlyNotified(c, "connect-success")) => passes
       /\ \A k \in conts[c] :
            k.stage = "resolving" /\ k \notin conts'[c] /\ ~passes =>
              /\ camp'[c] = camp[c]
              /\ preparedSent'[c] = preparedSent[c]
              /\ notified'[c] = notified[c]
              /\ [k EXCEPT !.stage = "dialog"] \in conts'[c] \/ windowDestroyed[c]
       /\ \A k \in conts[c] :
            k.stage = "dialog" /\ k \notin conts'[c] =>
              /\ closeCalls' = closeCalls + 1
              /\ isClosed'
              /\ camp'[c] = camp[c]
              /\ preparedSent'[c] = preparedSent[c]
              /\ notified'[c] = notified[c]]_vars

\* a networked session whose extensions did not match: closed by the
\* session itself, with no camp, no 'prepared', no notification
C8_Witness ==
  /\ ~isLocal
  /\ \E c \in Clients :
       /\ mapData[c] = "mapExt"
       /\ ~checkExtensions(extensions[c], RequiredExtensions(mapData[c]))
       /\ conts[c] = {}
       /\ ws[c] = "CLOSING" /\ wsCloseCode[c] = NoStatusCode
       /\ camp[c] = 0 /\ preparedSent[c] = 0 /\ notified[c] = <<>>
  /\ isClosed
  /\ frames = PairMsg - 1

\* C9: when the handshake timer runs, a session that never received the
\* handshake-success push has ws.close(4000) called on it and is no longer
\* open; one that received it and is still open stays open.
C9_HandshakeTimeout ==
  [][\A c \in Clients :
       hsTimer[c] = "pending" /\ hsTimer'[c] = "fired" =>
         /\ mapData[c] = NoMap =>
              /\ ws'[c] \notin {"CONNECTING", "OPEN"}
              /\ ws[c] \in {"CONNECTING", "OPEN"} => wsCloseCode'[c] = AbortCode
         /\ mapData[c] # NoMap /\ ws[c] = "OPEN" =>
              ws'[c] = "OPEN" /\ wsCloseCode'[c] = wsCloseCode[c]]_vars

\* the timer ran on an open connection that had not completed the handshake
C9_Witness ==
  \E c \in Clients :
    /\ hsTimer[c] = "fired"
    /\ mapData[c] = NoMap
    /\ ws[c] = "CLOSING"
    /\ wsCloseCode[c] = AbortCode

At(board, p) == board[p[1]][p[2]]
OwnChiefs(board, mine) == {p \in Positions : At(board, p).camp = mine /\ At(board, p).isChief}
RowMajor(s) ==
  \A i, j \in 1..Len(s) :
    i < j => s[i][1] < s[j][1] \/ (s[i][1] = s[j][1] /\ s[i][2] < s[j][2])
Elements(s) == {s[i] : i \in 1..Len(s)}

\* C14 (as stated): the answer lists, in row-major order, the own royal
\* pieces that lie in the union of the moves of every occupied square whose
\* occupant is not an own royal piece.
C14_ReachOfAllOthers ==
  \A c \in Clients :
    isChecked[c] # NotAsked =>
      LET board == chessboard[c]
          reach == UNION {moves[q] : q \in {q \in Positions :
                            At(board, q) # Null
                            /\ ~(At(board, q).camp = camp[c] /\ At(board, q).isChief)}}
      IN /\ RowMajor(isChecked[c])
         /\ Elements(isChecked[c]) = OwnChiefs(board, camp[c]) \cap reach

\* C14 (amended): the answer lists, in row-major order and each once, the own
\* royal pieces that lie in the union of the moves of every square that does
\* not hold a piece of the own camp.
C14_ReachOfOtherCamp ==
  \A c \in Clients :
    isChecked[c] # NotAsked =>
      LET board == chessboard[c]
          reach == UNION {moves[q] : q \in {q \in Positions : At(board, q).camp # camp[c]}}
      IN /\ RowMajor(isChecked[c])
         /\ Elements(isChecked[c]) = OwnChiefs(board, camp[c]) \cap reach

\* two own royal pieces, one reached by an opponent piece and reported, the
\* other reached only by an own piece and not reported
C14_Witness ==
  \E c \in Clients :
    /\ isChecked[c] # NotAsked
    /\ Len(isChecked[c]) = 1
    /\ \E p \in OwnChiefs(chessboard[c], camp[c]) \ Elements(isChecked[c]) :
         \E q \in Positions : At(chessboard[c], q) = [camp |-> camp[c], isChief |-> FALSE]
                               /\ p \in moves[q]
    /\ \E q \in Positions : /\ At(chessboard[c], q).camp \in Camps \ {camp[c]}
                             /\ isChecked[c][1] \in moves[q]

\* C11: a frame that carries a correlation id is only ever a response: also
\* when no handler is registered under its id (the request has timed out), no
\* push handler runs, whatever the type tag.
C11_IdNeverPush ==
  [][\A c \in Clients, m \in Replies :
       OnMessage(c, m) =>
         /\ isConnectSuccess' = isConnectSuccess
         /\ isGameEnd' = isGameEnd
         /\ mapData' = mapData
         /\ notified' = notified
         /\ conts' = conts /\ delayed' = delayed
         /\ closeCalls' = closeCalls /\ errorBoxes' = errorBoxes
         /\ sockVars' = sockVars]_vars

\* C12: the messages of a session take effect in arrival order: when a push
\* is dispatched, no handler of an earlier message is still suspended with
\* effects to come (so game-start is never forwarded ahead of the
\* connect-success notification of an earlier handshake-success push).
C12_ArrivalOrder ==
  [][\A c \in Clients, m \in Pushes : OnMessage(c, m) => conts[c] = {}]_vars

Tags(c) == {notified[c][i].tag : i \in 1..Len(notified[c])}
Ready(c) ==
  /\ camp[c] # 0 /\ preparedSent[c] > 0
  /\ "connect-success" \in Tags(c)
  /\ "game-start" \notin Tags(c)
  /\ ~isGameEnd[c]
Active(c) ==
  /\ camp[c] # 0 /\ preparedSent[c] > 0
  /\ "game-start" \in Tags(c)
  /\ ~isGameEnd[c]

\* C13: game-start is forwarded only to a session that is Ready, change-turn
\* only to one that is Active.
C13_PushesFollowStateMachine ==
  [][\A c \in Clients :
       /\ NewlyNotified(c, "game-start") => Ready(c)
       /\ NewlyNotified(c, "change-turn") => Active(c)]_vars

\* C19: a game-end push sets isGameEnd and forwards its payload to the window
\* (if the window still exists), and neither closes the socket nor invokes
\* the coordinator's close; isGameEnd, once set, stays set.
C19_GameEndOnlyFlags ==
  [][\A c \in Clients :
       /\ \A m \in Pushes :
            m.type = "game-end" /\ OnMessage(c, m) =>
              /\ isGameEnd'[c]
              /\ ~windowDestroyed[c] =>
                   notified'[c] = Append(notified[c], [tag |-> "game-end", data |-> m.data])
              /\ sockVars' = sockVars
              /\ closeCalls' = closeCalls /\ isClosed' = isClosed
              /\ windowDestroyed' = windowDestroyed
              /\ stopGameCalls' = stopGameCalls /\ errorBoxes' = errorBoxes
              /\ isConnectSuccess' = isConnectSuccess /\ camp' = camp
       /\ isGameEnd[c] => isGameEnd'[c]]_vars

\* the game ended, its result was forwarded, another push came after it, and
\* the connection and the window are still there
C19_Witness ==
  \E c \in Clients :
    /\ isGameEnd[c]
    /\ \E i \in 1..Len(notified[c]) :
         /\ notified[c][i] = [tag |-> "game-end", data |-> "result"]
         /\ i < Len(notified[c])
    /\ ws[c] = "OPEN" /\ wsCloseCode[c] = NotClosing
    /\ ~isClosed /\ ~windowDestroyed[c]

\* C20: a 'close' event with a code other than 4004 (4000 included) only
\* clears isConnectSuccess: the coordinator's close is not invoked, no dialog
\* is shown, no window is destroyed.
C20_OtherCodesOnlyClearFlag ==
  [][\A c \in Clients :
       closedWith[c] = NotClosing /\ closedWith'[c] \notin {NotClosing, PeerForcedCode} =>
         /\ ~isConnectSuccess'[c]
         /\ closeCalls' = closeCalls /\ isClosed' = isClosed
         /\ errorBoxes' = errorBoxes
         /\ windowDestroyed' = windowDestroyed
         /\ stopGameCalls' = stopGameCalls /\ handlerRegistered' = handlerRegistered
         /\ delayed' = delayed
         /\ camp' = camp /\ isGameEnd' = isGameEnd /\ notified' = notified]_vars

\* the handshake timer closed an open connection with 4000, the 'close' event
\* carried 4000, and the session's window is still there
C20_Witness ==
  \E c \in Clients :
    /\ hsTimer[c] = "fired"
    /\ wsCloseCode[c] = AbortCode
    /\ closedWith[c] = AbortCode
    /\ ws[c] = "CLOSED"
    /\ ~isClosed /\ ~windowDestroyed[c] /\ closeCalls = 0 /\ errorBoxes = 0

NoTeardown ==
  /\ closeCalls' = closeCalls /\ isClosed' = isClosed
  /\ windowDestroyed' = windowDestroyed
  /\ sockVars' = sockVars
  /\ stopGameCalls' = stopGameCalls /\ handlerRegistered' = handlerRegistered
  /\ errorBoxes' = errorBoxes

\* C15: a close request on a session's window invokes the coordinator's close
\* at once, without a prompt, if the session has received game-end; otherwise
\* it opens the prompt and tears nothing down, and the prompt's answer invokes
\* close exactly when the user confirms.
C15_UserClose ==
  [][\A c \in Clients :
       /\ UserCloseWindow(c) =>
            IF isGameEnd[c]
              THEN closeCalls' = closeCalls + 1 /\ isClosed' /\ prompt' = prompt
              ELSE prompt'[c] /\ NoTeardown
       /\ AnswerPrompt(c, TRUE) => closeCalls' = closeCalls + 1 /\ isClosed' /\ ~prompt'[c]
       /\ AnswerPrompt(c, FALSE) => NoTeardown /\ ~prompt'[c]]_vars

\* closed from a window whose game had not ended: no frame was delivered, no
\* dialog shown, no peer-forced drop, so the prompt was confirmed
C15_Witness ==
  /\ isClosed /\ closeCalls = 1
  /\ frames = PairMsg
  /\ errorBoxes = 0
  /\ \A c \in Clients : closedWith[c] # PeerForcedCode /\ ~isGameEnd[c] /\ ~prompt[c]

Outstanding(r) ==
  /\ Issued(r)
  /\ HandlerOf(r) = r
  /\ ~Settled(r)

\* C16: the 'close' event of the connection leaves the registered requests,
\* their timers and their results as they are; a request outstanding on a
\* closed connection is settled by nothing but its own timeout, with the
\* timeout error, and it is eventually settled.
C16_CloseDoesNotCancel ==
  /\ [][\A c \in Clients :
          ws[c] # "CLOSED" /\ ws'[c] = "CLOSED" =>
            /\ messageHandlers' = messageHandlers
            /\ reqTimer' = reqTimer
            /\ result' = result /\ resolveCalls' = resolveCalls]_vars
  /\ [][\A r \in 1..MaxReq :
          Outstanding(r) /\ ws[reqs[r].c] = "CLOSED" /\ result'[r] # result[r] =>
            /\ result'[r].by = "timeout"
            /\ result'[r].status = "error"
            /\ result'[r].data = "Timeout waiting for response."]_vars
  /\ \A r \in 1..MaxReq :
       (Outstanding(r) /\ ws[reqs[r].c] = "CLOSED") ~> (result[r].by = "timeout")

\* a transmitted request is still registered, unsettled, its timer running,
\* on a connection whose 'close' event has been handled
C16_Witness ==
  \E r \in 1..MaxReq :
    /\ Outstanding(r)
    /\ reqs[r].sent
    /\ reqTimer[r] = "pending"
    /\ ws[reqs[r].c] = "CLOSED"
    /\ closedWith[reqs[r].c] # NotClosing

\* C17: a frame that does not parse changes nothing but the log: handlers,
\* timers, results, handshake flag, camp, board, ended flag and closed flag
\* are unchanged, nothing is sent or forwarded, and every request in flight
\* is still settled afterwards.
C17_MalformedDropped ==
  /\ [][invalidLogged' # invalidLogged =>
          /\ invalidLogged' = invalidLogged + 1
          /\ messageHandlers' = messageHandlers /\ reqTimer' = reqTimer
          /\ result' = result /\ resolveCalls' = resolveCalls
          /\ isConnectSuccess' = isConnectSuccess /\ camp' = camp
          /\ chessboard' = chessboard /\ isGameEnd' = isGameEnd
          /\ isClosed' = isClosed /\ closeCalls' = closeCalls
          /\ preparedSent' = preparedSent /\ notified' = notified
          /\ sockVars' = sockVars /\ conts' = conts /\ delayed' = delayed]_vars
  /\ \A r \in 1..MaxReq : (invalidLogged > 0 /\ Outstanding(r)) ~> Settled(r)

\* an unparsable frame was logged on a session one of whose requests has been
\* answered by its response while another is still in flight
C17_Witness ==
  /\ invalidLogged = 1
  /\ frames = 0
  /\ \E r \in 1..MaxReq : result[r].by = "response" /\ result[r].data = "chessboard"
  /\ \E r \in 1..MaxReq : Outstanding(r) /\ reqs[r].sent /\ reqTimer[r] = "pending"

\* C18: once a response has resolved a request no timer of that request is
\* scheduled, and the timer never runs for a request already resolved.
C18_TimerCancelled ==
  /\ [](\A r \in 1..MaxReq : result[r].by = "response" => reqTimer[r] # "pending")
  /\ [][\A r \in 1..MaxReq :
          reqTimer[r] = "pending" /\ reqTimer'[r] = "fired" => ~Settled(r)]_vars

====
